---- MODULE Spec2Model ----
(***************************************************************************)
(* Model of src/app.py: the domain filter (is_domain_allowed), the Bing    *)
(* image search client (search_product_images), the row pipeline           *)
(* (process_dataframe), the Summary counts (create_excel_output) and runs  *)
(* that follow one another in a session.                                   *)
(*                                                                         *)
(* Python strings are sequences of one-character strings, so that strip,   *)
(* lower, slicing, join, len and the substring test are computed.  A value *)
(* that may be None is a record [present, items].                          *)
(***************************************************************************)
EXTENDS Integers, Sequences, FiniteSets, TLC

VARIABLES
    pc,                 \* position of the running function
    \* ---- is_domain_allowed called on its own
    url, allowed,
    \* ---- filter policy (arguments whitelist / blacklist)
    whitelist, blacklist,
    \* ---- search_product_images: arguments, locals, return value
    description, supplier, brand, max_results, retry_count,
    search_string, attempt, image_containers, image_urls, source_page_url,
    examined, ret, driver,
    \* ---- observable effects of the search client (requests, sleeps)
    request_count, backoff_count, failed_attempts,
    requested, slept_since_request, filter_rejected,
    \* ---- process_dataframe: arguments, locals, session state
    df, num_rows, results_df, stats_df, idx, search_query,
    success_count, failed_count, filtered_count,
    checkpoint_data, last_processed_index,
    \* ---- create_excel_output: the counts of the Summary sheet
    summary

filterVars == <<url, allowed>>
policyVars == <<whitelist, blacklist>>
searchVars == <<description, supplier, brand, max_results, retry_count,
                search_string, attempt, image_containers, image_urls,
                source_page_url, examined, ret, driver>>
effectVars == <<request_count, backoff_count, failed_attempts,
                requested, slept_since_request, filter_rejected>>
pipeVars   == <<df, num_rows, results_df, stats_df, idx, search_query,
                success_count, failed_count, filtered_count,
                checkpoint_data, last_processed_index, summary>>
vars == <<pc, filterVars, policyVars, searchVars, effectVars, pipeVars>>

----
\* Bounds of the model.
MaxUrlLen  == 5     \* longest URL handed to is_domain_allowed on its own
MaxListLen == 1     \* most entries in a whitelist / blacklist
MaxRaw     == 4     \* most results the engine returns (search called on its own)
MaxResults == 2     \* largest max_results argument (search called on its own)
MaxRetry   == 2     \* largest retry_count argument (search called on its own)
MaxRows    == 2     \* most rows of the input table

----
\* Strings.

Min(a, b) == IF a < b THEN a ELSE b

\* s[:n]
Take(s, n) == SubSeq(s, 1, Min(n, Len(s)))

\* s[n:]  (n is the 0-based start)
Drop(s, n) == SubSeq(s, n + 1, Len(s))

\* a string of n copies of the character c
Rep(c, n) == [i \in 1..n |-> c]

\* str.lower() on one character
LowerChar(c) == IF c = "B" THEN "b" ELSE IF c = "G" THEN "g" ELSE c

\* str.lower()
Lower(s) == [i \in 1..Len(s) |-> LowerChar(s[i])]

\* needle in hay
Contains(hay, needle) ==
    \E i \in 0..(Len(hay) - Len(needle)) :
        SubSeq(hay, i + 1, i + Len(needle)) = needle

\* s.find(c) as a 1-based position, 0 when c does not occur
Find(s, c) ==
    IF \E i \in 1..Len(s) : s[i] = c
    THEN CHOOSE i \in 1..Len(s) : s[i] = c /\ \A j \in 1..(i - 1) : s[j] # c
    ELSE 0

\* position of the first character of s that is in the set cs, Len(s)+1 if none
FirstOf(s, cs) ==
    IF \E i \in 1..Len(s) : s[i] \in cs
    THEN CHOOSE i \in 1..Len(s) : s[i] \in cs /\ \A j \in 1..(i - 1) : s[j] \notin cs
    ELSE Len(s) + 1

\* all sequences over S of length at most n
RECURSIVE SeqsUpTo(_, _)
SeqsUpTo(S, n) ==
    IF n = 0 THEN {<<>>}
    ELSE LET shorter == SeqsUpTo(S, n - 1)
         IN shorter \cup {Append(s, x) : s \in {t \in shorter : Len(t) = n - 1}, x \in S}

\* an argument that may be None
None == [present |-> FALSE, items |-> <<>>]
Some(l) == [present |-> TRUE, items |-> l]

\* Python truth value of an optional list: None and [] are both false
Truthy(l) == l.present /\ Len(l.items) > 0

----
\* urllib.parse.urlparse(url).netloc, as urlsplit computes it.

Letters     == {"g", "B", "b", "G"}
SchemeChars == Letters \cup {"+", "-", "."}
NetlocEnd   == {"/", "?", "#"}

urlparse(u) ==
    LET i == Find(u, ":")
        hasScheme == /\ i > 1
                     /\ u[1] \in Letters
                     /\ \A k \in 1..(i - 1) : u[k] \in SchemeChars
        rest == IF hasScheme THEN Drop(u, i) ELSE u
        hasNetloc == Len(rest) >= 2 /\ rest[1] = "/" /\ rest[2] = "/"
        after == Drop(rest, 2)
        netloc == IF hasNetloc THEN Take(after, FirstOf(after, NetlocEnd) - 1) ELSE <<>>
        open == \E k \in 1..Len(netloc) : netloc[k] = "["
        close == \E k \in 1..Len(netloc) : netloc[k] = "]"
    IN [raised |-> (open /\ ~close) \/ (close /\ ~open), netloc |-> netloc]

----
\* the filter asking the whitelist before the blacklist
is_domain_allowed_whitelist_first(u, wl, bl) ==
    IF u = <<>> THEN FALSE
    ELSE LET parsed == urlparse(u)
             domain == Lower(parsed.netloc)
         IN IF parsed.raised THEN FALSE
            ELSE IF Truthy(wl)
                 THEN \E k \in 1..Len(wl.items) : Contains(domain, Lower(wl.items[k]))
            ELSE IF Truthy(bl) /\ \E k \in 1..Len(bl.items) : Contains(domain, Lower(bl.items[k]))
                 THEN FALSE
            ELSE TRUE

----
\* is_domain_allowed(url, whitelist, blacklist)

is_domain_allowed(u, wl, bl) ==
    IF u = <<>> THEN FALSE
    ELSE LET parsed == urlparse(u)
             domain == Lower(parsed.netloc)
         IN IF parsed.raised THEN FALSE
            ELSE IF Truthy(bl) /\ \E k \in 1..Len(bl.items) : Contains(domain, Lower(bl.items[k]))
                 THEN FALSE
            ELSE IF Truthy(wl)
                 THEN \E k \in 1..Len(wl.items) : Contains(domain, Lower(wl.items[k]))
            ELSE TRUE

----
\* Values the variables of a function that is not running hold.

NoString == <<>>

\* what a call hands back: a value (urls, page) or an exception (msg)
NoReturn == [kind |-> "none", urls |-> <<>>, page |-> <<>>, msg |-> <<>>]
Value(urls, page) == [kind |-> "value", urls |-> urls, page |-> page, msg |-> <<>>]
Raise(msg) == [kind |-> "raise", urls |-> <<>>, page |-> <<>>, msg |-> msg]

\* the Summary counts before create_excel_output has computed them
NoSummary == [total_processed |-> -1, total_success |-> -1, total_failed |-> -1,
              total_filtered |-> -1, total_errors |-> -1]

FilterIdle ==
    /\ url = NoString
    /\ allowed = "unset"

SearchIdle ==
    /\ description = NoString /\ supplier = NoString /\ brand = NoString
    /\ max_results = 0 /\ retry_count = 0
    /\ search_string = NoString
    /\ attempt = 0
    /\ image_containers = <<>>
    /\ image_urls = <<>>
    /\ source_page_url = NoString
    /\ examined = 0
    /\ ret = NoReturn
    /\ driver = "unset"

EffectIdle ==
    /\ request_count = 0
    /\ backoff_count = 0
    /\ failed_attempts = {}
    /\ requested = FALSE
    /\ slept_since_request = FALSE
    /\ filter_rejected = FALSE

PipeIdle ==
    /\ df = <<>> /\ num_rows = 0
    /\ results_df = <<>> /\ stats_df = <<>>
    /\ idx = 0
    /\ search_query = NoString
    /\ success_count = 0 /\ failed_count = 0 /\ filtered_count = 0
    /\ checkpoint_data = None
    /\ last_processed_index = -1
    /\ summary = NoSummary

----
\* The filter called on its own: every URL over UrlChars of length at most
\* MaxUrlLen, every whitelist and blacklist of at most MaxListLen entries.

UrlChars == {"g", "B", ":", "/", "["}
Urls == SeqsUpTo(UrlChars, MaxUrlLen)

\* entries of a whitelist / blacklist (substrings of a host, any case)
PolicyEntries == {<<"g">>, <<"B", "g">>}
PolicyLists == {None} \cup {Some(l) : l \in SeqsUpTo(PolicyEntries, MaxListLen)}

InitFilter ==
    /\ pc = "filter_call"
    /\ url \in Urls
    /\ whitelist \in PolicyLists
    /\ blacklist \in PolicyLists
    /\ allowed = "unset"
    /\ SearchIdle /\ EffectIdle /\ PipeIdle

CallFilter ==
    /\ pc = "filter_call"
    /\ allowed' = is_domain_allowed(url, whitelist, blacklist)
    /\ pc' = "filter_done"
    /\ UNCHANGED <<url, policyVars, searchVars, effectVars, pipeVars>>

NextFilter == CallFilter

SpecFilter == InitFilter /\ [][NextFilter]_vars

----
\* search_product_images (lines 58-132)

\* str.strip()
Strip(s) ==
    IF \A i \in 1..Len(s) : s[i] = " " THEN <<>>
    ELSE LET a == CHOOSE i \in 1..Len(s) : s[i] # " " /\ \A j \in 1..(i - 1) : s[j] = " "
             b == CHOOSE i \in 1..Len(s) : s[i] # " " /\ \A j \in (i + 1)..Len(s) : s[j] = " "
         IN SubSeq(s, a, b)

\* " ".join(parts)
RECURSIVE Join(_)
Join(parts) ==
    IF parts = <<>> THEN <<>>
    ELSE IF Len(parts) = 1 THEN parts[1]
    ELSE parts[1] \o <<" ">> \o Join(Tail(parts))

ProductToken == <<"p", "r", "o", "d", "u", "c", "t">>

\* lines 71-81: the query string the client sends
ComposeQuery(d, s, b) ==
    LET part(x) == IF x # <<>> /\ Strip(x) # <<>> THEN <<Strip(x)>> ELSE <<>>
    IN Join(part(b) \o part(s) \o part(d) \o <<ProductToken>>)

\* One result of the engine: the 'm' attribute of an a.iusc element.
\* m = "none": no attribute; "bad": not JSON; "json": an object with the
\* keys purl, murl, turl (a missing key reads as the empty string).
Container(m, purl, murl, turl) == [m |-> m, purl |-> purl, murl |-> murl, turl |-> turl]

MinImageLen == 20

PageG  == <<"/", "/", "g">>
PageG2 == <<"/", "/", "g", "/">>
PageBg == <<"/", "/", "B", "g">>

Image(c) == Rep(c, MinImageLen + 1)
ShortImage == Rep("s", MinImageLen)

NoAttr   == Container("none", <<>>, <<>>, <<>>)
BadJson  == Container("bad", <<>>, <<>>, <<>>)
OnG      == Container("json", PageG, Image("1"), <<>>)
OnG2     == Container("json", PageG2, Image("2"), Image("t"))
OnBg     == Container("json", PageBg, <<>>, Image("3"))
ShortOnG == Container("json", PageG, ShortImage, Image("4"))

\* the result lists of the engine when the search is called on its own:
\* every list of at most MaxRaw of these containers
Containers == {BadJson, OnG, OnBg, ShortOnG}
SearchLists == SeqsUpTo(Containers, MaxRaw)

\* the result lists of the engine for the rows of a run
RowLists == {
    <<>>,
    <<NoAttr, BadJson>>,
    <<OnBg>>,
    <<OnG, OnBg>>,
    <<ShortOnG, OnG2>>,
    <<BadJson, OnBg, OnG, OnG2>> }

\* line 111: data.get('murl') or data.get('turl')
ImageOf(c) == IF c.murl # <<>> THEN c.murl ELSE c.turl

\* line 94: how many containers one attempt looks at
ScanWindow(mr) == mr * 3

\* the loop body recording the page of the latest accepted container
ExamineLastPage(c, acc, wl, bl) ==
    IF c.m = "none" THEN acc
    ELSE IF c.m = "bad" THEN acc
    ELSE IF ~is_domain_allowed(c.purl, wl, bl) THEN acc
    ELSE LET image_url == ImageOf(c)
         IN IF image_url # <<>> /\ Len(image_url) > MinImageLen
            THEN [acc EXCEPT !.urls = Append(acc.urls, image_url),
                             !.page = IF c.purl # <<>> THEN c.purl ELSE acc.page]
            ELSE acc

\* lines 98-120: the body of the container loop for one container
Examine(c, acc, wl, bl) ==
    IF c.m = "none" THEN acc
    ELSE IF c.m = "bad" THEN acc
    ELSE IF ~is_domain_allowed(c.purl, wl, bl) THEN acc
    ELSE LET image_url == ImageOf(c)
         IN IF image_url # <<>> /\ Len(image_url) > MinImageLen
            THEN [acc EXCEPT !.urls = Append(acc.urls, image_url),
                             !.page = IF acc.page = <<>> /\ c.purl # <<>>
                                      THEN c.purl ELSE acc.page]
            ELSE acc

\* the container loop giving up at the first payload that is not JSON
RECURSIVE ScanStopOnBad(_, _, _, _, _, _)
ScanStopOnBad(cs, k, acc, mr, wl, bl) ==
    IF k > Len(cs) THEN acc
    ELSE IF Len(acc.urls) >= mr THEN acc
    ELSE IF cs[k].m = "bad" THEN [acc EXCEPT !.examined = acc.examined + 1]
    ELSE ScanStopOnBad(cs, k + 1,
                       [Examine(cs[k], acc, wl, bl) EXCEPT !.examined = acc.examined + 1],
                       mr, wl, bl)

\* lines 94-120: the container loop from container k on
RECURSIVE ScanFrom(_, _, _, _, _, _)
ScanFrom(cs, k, acc, mr, wl, bl) ==
    IF k > Len(cs) THEN acc
    ELSE IF Len(acc.urls) >= mr THEN acc
    ELSE ScanFrom(cs, k + 1,
                  [Examine(cs[k], acc, wl, bl) EXCEPT !.examined = acc.examined + 1],
                  mr, wl, bl)

\* the handler never sleeping
BackoffNever(a, rc) == a < rc - 2 /\ a > rc

\* line 126: is the backoff slept after this failed attempt
BackoffDue(a, rc) == a < rc - 1

\* the retry loop running one iteration too many
HasAttemptOneMore(a, rc) == a <= rc

\* line 83: does range(retry_count) have an iteration a
HasAttempt(a, rc) == a < rc

\* exception messages: shorter than, exactly, and longer than the 50
\* characters a status keeps, and one that has the word "Failed" in it
Msg(n) == [i \in 1..n |-> IF i <= 50 THEN "e" ELSE "x"]
MsgFailed == <<"F", "a", "i", "l", "e", "d", " ", "t", "o", " ", "s", "t", "a", "r", "t">>
Messages == {Msg(3), Msg(50), Msg(51), MsgFailed}

\* lines 64-81: get_driver() returns the cached driver, creates one
\* (a driver or None, both cached), or raises (nothing cached)
SearchEntry ==
    /\ pc = "search_entry"
    /\ image_urls' = <<>>
    /\ source_page_url' = <<>>
    /\ image_containers' = <<>>
    /\ examined' = 0
    /\ attempt' = 0
    /\ request_count' = 0
    /\ backoff_count' = 0
    /\ failed_attempts' = {}
    /\ filter_rejected' = FALSE
    /\ \/ /\ driver = "unset"
          /\ \E m \in Messages : ret' = Raise(m)
          /\ driver' = driver
          /\ search_string' = NoString
          /\ pc' = "search_return"
       \/ /\ \/ driver = "unset" /\ driver' \in {"ok", "none"}
             \/ driver # "unset" /\ driver' = driver
          /\ IF driver' = "none"
             THEN /\ ret' = Value(<<>>, <<>>)
                  /\ search_string' = NoString
                  /\ pc' = "search_return"
             ELSE /\ ret' = NoReturn
                  /\ search_string' = ComposeQuery(description, supplier, brand)
                  /\ pc' = IF HasAttempt(0, retry_count) THEN "attempt" ELSE "return"
    /\ UNCHANGED <<filterVars, policyVars, pipeVars, requested, slept_since_request,
                   description, supplier, brand, max_results, retry_count>>

searchArgs == <<description, supplier, brand, max_results, retry_count>>

\* lines 85-88: driver.get(search_url), one request to the engine
Attempt ==
    /\ pc = "attempt"
    /\ request_count' = request_count + 1
    /\ requested' = TRUE
    /\ slept_since_request' = FALSE
    /\ pc' \in {"after_get", "handler"}
    /\ UNCHANGED <<filterVars, policyVars, pipeVars, searchArgs, search_string,
                   attempt, image_containers, image_urls, source_page_url,
                   examined, ret, driver, backoff_count, failed_attempts,
                   filter_rejected>>

\* line 89: time.sleep(2 + random.uniform(0, 1))
SleepAfterGet ==
    /\ pc = "after_get"
    /\ slept_since_request' = TRUE
    /\ pc' = "find"
    /\ UNCHANGED <<filterVars, policyVars, pipeVars, searchVars,
                   request_count, backoff_count, failed_attempts, requested,
                   filter_rejected>>

\* line 107 for one container of the loop: its payload decoded and
\* is_domain_allowed turned its page down
Rejected(c) == c.m = "json" /\ ~is_domain_allowed(c.purl, whitelist, blacklist)

\* lines 92-120: find_elements raises, or returns the result list, which the
\* container loop scans
FindElements(lists) ==
    /\ pc = "find"
    /\ \/ /\ pc' = "handler"
          /\ UNCHANGED <<image_containers, image_urls, source_page_url, examined,
                         filter_rejected>>
       \/ \E cs \in lists :
            LET window == Take(cs, ScanWindow(max_results))
                acc == ScanFrom(window, 1,
                                [urls |-> image_urls, page |-> source_page_url, examined |-> 0],
                                max_results, whitelist, blacklist)
            IN /\ image_containers' = cs
               /\ image_urls' = acc.urls
               /\ source_page_url' = acc.page
               /\ examined' = acc.examined
               /\ filter_rejected' =
                    (filter_rejected \/ \E k \in 1..acc.examined : Rejected(window[k]))
               /\ pc' = "scanned"
    /\ UNCHANGED <<filterVars, policyVars, pipeVars, searchArgs, search_string,
                   attempt, ret, driver, request_count, backoff_count,
                   failed_attempts, requested, slept_since_request>>

\* lines 122-123 and the loop head, line 83: break when something was
\* accepted, else the next attempt if range(retry_count) has one.  The result
\* list of the attempt is not read again (line 92 assigns it before any use),
\* so the next iteration starts without it.
AfterScan ==
    /\ pc = "scanned"
    /\ IF image_urls # <<>>
       THEN /\ pc' = "return"
            /\ UNCHANGED <<attempt, image_containers>>
       ELSE /\ attempt' = attempt + 1
            /\ pc' = IF HasAttempt(attempt + 1, retry_count) THEN "attempt" ELSE "return"
            /\ image_containers' = IF HasAttempt(attempt + 1, retry_count)
                                   THEN <<>> ELSE image_containers
    /\ UNCHANGED <<filterVars, policyVars, pipeVars, effectVars, searchArgs,
                   search_string, image_urls, source_page_url, examined, ret, driver>>

\* lines 125-130: the handler of a failed attempt
Handler ==
    /\ pc = "handler"
    /\ failed_attempts' = failed_attempts \cup {attempt}
    /\ IF BackoffDue(attempt, retry_count)
       THEN /\ backoff_count' = backoff_count + 1
            /\ slept_since_request' = TRUE
       ELSE UNCHANGED <<backoff_count, slept_since_request>>
    /\ attempt' = attempt + 1
    /\ pc' = IF HasAttempt(attempt + 1, retry_count) THEN "attempt" ELSE "return"
    /\ UNCHANGED <<filterVars, policyVars, pipeVars, searchArgs, search_string,
                   image_containers, image_urls, source_page_url, examined, ret,
                   driver, request_count, requested, filter_rejected>>

\* line 132
Return ==
    /\ pc = "return"
    /\ ret' = Value(Take(image_urls, max_results), source_page_url)
    /\ pc' = "search_return"
    /\ UNCHANGED <<filterVars, policyVars, pipeVars, effectVars, searchArgs,
                   search_string, attempt, image_containers, image_urls,
                   source_page_url, examined, driver>>

----
\* The search client called on its own.

\* (description, supplier, brand) of the products searched for
Products == {
    [id |-> <<"1">>, description |-> <<"w">>,      supplier |-> <<>>,    brand |-> <<"A">>],
    [id |-> <<"2">>, description |-> <<" ", "w">>, supplier |-> <<"S">>, brand |-> <<" ">>],
    [id |-> <<"3">>, description |-> <<>>,         supplier |-> <<>>,    brand |-> <<>>] }

\* whitelist / blacklist pairs as the form builds them (lines 471-492):
\* None when disabled, else the list of non-empty lines
Policies == {
    <<None, None>>,
    <<Some(<<>>), None>>,
    <<None, Some(<<<<"B", "g">>>>)>>,
    <<Some(<<<<"B", "g">>>>), None>>,
    <<Some(<<<<"g">>>>), Some(<<<<"B", "g">>>>)>> }

\* the policies of a search called on its own: none, a whitelist that only
\* the host of PageBg matches, a blacklist that only the host of PageBg matches
SearchPolicies == {
    <<None, None>>,
    <<Some(<<<<"B", "g">>>>), None>>,
    <<None, Some(<<<<"B", "g">>>>)>> }

InitSearch ==
    /\ pc = "search_entry"
    /\ \E pol \in SearchPolicies : whitelist = pol[1] /\ blacklist = pol[2]
    /\ \E p \in {q \in Products : q.id = <<"1">>} :
        /\ description = p.description
        /\ supplier = p.supplier
        /\ brand = p.brand
    /\ max_results \in 1..MaxResults
    /\ retry_count \in 1..MaxRetry
    /\ search_string = NoString
    /\ attempt = 0
    /\ image_containers = <<>>
    /\ image_urls = <<>>
    /\ source_page_url = NoString
    /\ examined = 0
    /\ ret = NoReturn
    /\ driver = "unset"
    /\ FilterIdle /\ EffectIdle /\ PipeIdle

NextSearch ==
    \/ SearchEntry
    \/ Attempt
    \/ SleepAfterGet
    \/ FindElements(SearchLists)
    \/ AfterScan
    \/ Handler
    \/ Return

SpecSearch == InitSearch /\ [][NextSearch]_vars

----
\* process_dataframe (lines 141-313)

\* head taking one row too many
headOneMore(table, n) == SubSeq(table, 1, Min(n + 1, Len(table)))

\* df.head(n), n >= 0
head(table, n) == SubSeq(table, 1, Min(n, Len(table)))

\* lines 226-228: the query kept for display and for the statistics
DisplayQuery(d, s, b) ==
    LET part(x) == IF Strip(x) # <<>> THEN <<x>> ELSE <<>>
    IN Join(part(b) \o part(s) \o part(d))

StatusSuccess  == <<"S", "u", "c", "c", "e", "s", "s">>
StatusFiltered == <<"F", "i", "l", "t", "e", "r", "e", "d", " ", "-", " ", "N", "o", " ",
                    "a", "l", "l", "o", "w", "e", "d", " ", "d", "o", "m", "a", "i", "n", "s">>
StatusFailed   == <<"F", "a", "i", "l", "e", "d", " ", "-", " ", "N", "o", " ",
                    "i", "m", "a", "g", "e", "s", " ", "f", "o", "u", "n", "d">>
ErrorPrefix    == <<"E", "r", "r", "o", "r", ":", " ">>

ErrorKeep == 50

\* the status keeping 100 characters, as the on-screen message of line 284 does
ErrorStatusLong(msg) == ErrorPrefix \o Take(msg, 100)

\* line 282: f'Error: {str(e)[:50]}'
ErrorStatus(msg) == ErrorPrefix \o Take(msg, ErrorKeep)

\* the class looking at the blacklist only
ClassifyBlacklistOnly(urls, wl, bl) ==
    IF urls # <<>> THEN "success"
    ELSE IF Truthy(bl) THEN "filtered"
    ELSE "failed"

\* lines 265-278: the class of a row whose search returned
Classify(urls, wl, bl) ==
    IF urls # <<>> THEN "success"
    ELSE IF Truthy(wl) \/ Truthy(bl) THEN "filtered"
    ELSE "failed"

StatusOf(class) ==
    IF class = "success" THEN StatusSuccess
    ELSE IF class = "filtered" THEN StatusFiltered
    ELSE StatusFailed

\* lines 243-247: the image slots and the page URL of a result row
FillResult(row, urls, page) ==
    [row EXCEPT !.Image_URL_1 = IF Len(urls) >= 1 THEN urls[1] ELSE @,
                !.Image_URL_2 = IF Len(urls) >= 2 THEN urls[2] ELSE @,
                !.Product_Page_URL = IF page # <<>> THEN page ELSE @]

\* lines 250-255
SourceDomain(page) ==
    IF page = <<>> THEN <<>>
    ELSE IF urlparse(page).raised THEN <<>>
    ELSE urlparse(page).netloc

CheckpointInterval == 10

\* the run start that leaves the counters as the last run left them
SetupKeepCounters ==
    /\ pc = "setup"
    /\ LET df_to_process == head(df, num_rows)
       IN /\ results_df' = [i \in 1..Len(df_to_process) |->
                              [id |-> df_to_process[i].id,
                               description |-> df_to_process[i].description,
                               supplier |-> df_to_process[i].supplier,
                               brand |-> df_to_process[i].brand,
                               Image_URL_1 |-> <<>>,
                               Image_URL_2 |-> <<>>,
                               Product_Page_URL |-> <<>>]]
          /\ stats_df' = [i \in 1..Len(df_to_process) |->
                              [Product_ID |-> df_to_process[i].id,
                               Search_Query |-> <<>>,
                               Source_Domain |-> <<>>,
                               Images_Found |-> 0,
                               Search_Status |-> <<>>]]
    /\ idx' = 0
    /\ pc' = "row"
    /\ UNCHANGED <<filterVars, policyVars, searchVars, effectVars, df, num_rows,
                   search_query, checkpoint_data, last_processed_index, summary,
                   success_count, failed_count, filtered_count>>

\* lines 147-208: session state defaults, the selected rows, the empty
\* result and statistics rows, the counters
Setup ==
    /\ pc = "setup"
    /\ LET df_to_process == head(df, num_rows)
       IN /\ results_df' = [i \in 1..Len(df_to_process) |->
                              [id |-> df_to_process[i].id,
                               description |-> df_to_process[i].description,
                               supplier |-> df_to_process[i].supplier,
                               brand |-> df_to_process[i].brand,
                               Image_URL_1 |-> <<>>,
                               Image_URL_2 |-> <<>>,
                               Product_Page_URL |-> <<>>]]
          /\ stats_df' = [i \in 1..Len(df_to_process) |->
                              [Product_ID |-> df_to_process[i].id,
                               Search_Query |-> <<>>,
                               Source_Domain |-> <<>>,
                               Images_Found |-> 0,
                               Search_Status |-> <<>>]]
    /\ success_count' = 0
    /\ failed_count' = 0
    /\ filtered_count' = 0
    /\ idx' = 0
    /\ pc' = "row"
    /\ UNCHANGED <<filterVars, policyVars, searchVars, effectVars, df, num_rows,
                   search_query, checkpoint_data, last_processed_index, summary>>

\* lines 210-240: the loop head, the product details, the display query and
\* the call of search_product_images
RowBegin ==
    /\ pc = "row"
    /\ idx < Len(results_df)
    /\ LET row == results_df[idx + 1]
       IN /\ description' = row.description
          /\ supplier' = row.supplier
          /\ brand' = row.brand
          /\ search_query' = DisplayQuery(row.description, row.supplier, row.brand)
    /\ max_results' = 2
    /\ retry_count' = 2
    /\ pc' = "search_entry"
    /\ UNCHANGED <<filterVars, policyVars, effectVars, df, num_rows, results_df,
                   stats_df, idx, success_count, failed_count, filtered_count,
                   checkpoint_data, last_processed_index, summary, search_string, attempt,
                   image_containers, image_urls, source_page_url, examined, ret, driver>>

\* lines 242-284: the row after the search returned or raised
RowComplete ==
    /\ pc = "search_return"
    /\ IF ret.kind = "raise"
       THEN /\ failed_count' = failed_count + 1
            /\ stats_df' = [stats_df EXCEPT ![idx + 1].Search_Status = ErrorStatus(ret.msg)]
            /\ UNCHANGED <<results_df, success_count, filtered_count>>
       ELSE LET class == Classify(ret.urls, whitelist, blacklist)
            IN /\ results_df' = [results_df EXCEPT
                                    ![idx + 1] = FillResult(@, ret.urls, ret.page)]
               /\ stats_df' = [stats_df EXCEPT
                                    ![idx + 1].Search_Query = search_query,
                                    ![idx + 1].Source_Domain = SourceDomain(ret.page),
                                    ![idx + 1].Images_Found = Len(ret.urls),
                                    ![idx + 1].Search_Status = StatusOf(class)]
               /\ success_count' = success_count + (IF class = "success" THEN 1 ELSE 0)
               /\ filtered_count' = filtered_count + (IF class = "filtered" THEN 1 ELSE 0)
               /\ failed_count' = failed_count + (IF class = "failed" THEN 1 ELSE 0)
    /\ pc' = "metrics"
    /\ UNCHANGED <<filterVars, policyVars, searchVars, effectVars, df, num_rows, idx,
                   search_query, checkpoint_data, last_processed_index, summary>>

\* lines 286-307: the metrics, the checkpoint of every 10th row (with its
\* sleep) and the delay before the next row
RowEnd ==
    /\ pc = "metrics"
    /\ IF (idx + 1) % CheckpointInterval = 0
       THEN /\ checkpoint_data' = Some(results_df)
            /\ last_processed_index' = idx
       ELSE UNCHANGED <<checkpoint_data, last_processed_index>>
    /\ slept_since_request' = TRUE
    /\ idx' = idx + 1
    /\ pc' = "row"
    /\ UNCHANGED <<filterVars, policyVars, searchVars, df, num_rows, results_df,
                   stats_df, search_query, success_count, failed_count, filtered_count,
                   request_count, backoff_count, failed_attempts, requested,
                   filter_rejected, summary>>

\* lines 309-313: the loop is exhausted, both tables are returned
Finish ==
    /\ pc = "row"
    /\ idx >= Len(results_df)
    /\ pc' = "done"
    /\ UNCHANGED <<filterVars, policyVars, searchVars, effectVars, pipeVars>>

\* lines 322-326: the words the Summary counts look for in a status
FailedWord   == <<"F", "a", "i", "l", "e", "d">>
FilteredWord == <<"F", "i", "l", "t", "e", "r", "e", "d">>
ErrorWord    == <<"E", "r", "r", "o", "r">>

\* stats_df['Search_Status'].str.contains(word).sum()
CountContaining(stats, word) ==
    Cardinality({i \in 1..Len(stats) : Contains(stats[i].Search_Status, word)})

\* lines 321-326: the counts of the Summary sheet
Summary(stats) ==
    [total_processed |-> Len(stats),
     total_success   |-> Cardinality({i \in 1..Len(stats) :
                                        stats[i].Search_Status = StatusSuccess}),
     total_failed    |-> CountContaining(stats, FailedWord),
     total_filtered  |-> CountContaining(stats, FilteredWord),
     total_errors    |-> CountContaining(stats, ErrorWord)]

\* line 557: create_excel_output(results_df, stats_df) on the tables the run
\* returned
CreateExcel ==
    /\ pc = "done"
    /\ summary' = Summary(stats_df)
    /\ pc' = "reported"
    /\ UNCHANGED <<filterVars, policyVars, searchVars, effectVars, df, num_rows,
                   results_df, stats_df, idx, search_query, success_count,
                   failed_count, filtered_count, checkpoint_data,
                   last_processed_index>>

\* lines 471-545: the script runs again with what the form holds now and the
\* button calls process_dataframe again.  st.session_state (lines 147-151) and
\* the cached driver (line 13) are kept from the earlier run; the tables and
\* the locals of the search belong to the earlier script run and are gone;
\* the counters are rebound at lines 198-200 and keep their last value here.
NewRun(tables, counts) ==
    /\ pc = "reported"
    /\ df' \in tables
    /\ num_rows' \in counts
    /\ \E pol \in Policies : whitelist' = pol[1] /\ blacklist' = pol[2]
    /\ results_df' = <<>> /\ stats_df' = <<>>
    /\ idx' = 0
    /\ search_query' = NoString
    /\ summary' = NoSummary
    /\ description' = NoString /\ supplier' = NoString /\ brand' = NoString
    /\ max_results' = 0 /\ retry_count' = 0
    /\ search_string' = NoString
    /\ attempt' = 0
    /\ image_containers' = <<>>
    /\ image_urls' = <<>>
    /\ source_page_url' = NoString
    /\ examined' = 0
    /\ ret' = NoReturn
    /\ pc' = "setup"
    /\ UNCHANGED <<filterVars, effectVars, driver, success_count, failed_count,
                   filtered_count, checkpoint_data, last_processed_index>>

\* The input table: row i has a distinct identifier and the fields of one of
\* Products.  A missing cell reads as the empty string (lines 218-222), as
\* does a supplier or brand column that is not selected (lines 159-173).
Digits == <<"0", "1", "2", "3", "4", "5", "6", "7", "8", "9">>
IdOf(i) == <<Digits[(i \div 10) + 1], Digits[(i % 10) + 1]>>
FieldsOf(i) == CHOOSE p \in Products : p.id = <<Digits[((i - 1) % 3) + 2]>>
InputRow(i) == [FieldsOf(i) EXCEPT !.id = IdOf(i)]
Tables == {[i \in 1..L |-> InputRow(i)] : L \in 0..MaxRows}

Init ==
    /\ pc = "setup"
    /\ df \in Tables
    /\ num_rows \in 0..(MaxRows + 1)
    /\ \E pol \in Policies : whitelist = pol[1] /\ blacklist = pol[2]
    /\ results_df = <<>> /\ stats_df = <<>>
    /\ idx = 0
    /\ search_query = NoString
    /\ success_count = 0 /\ failed_count = 0 /\ filtered_count = 0
    /\ checkpoint_data = None
    /\ last_processed_index = -1
    /\ summary = NoSummary
    /\ FilterIdle /\ SearchIdle /\ EffectIdle

Next ==
    \/ Setup
    \/ RowBegin
    \/ SearchEntry
    \/ Attempt
    \/ SleepAfterGet
    \/ FindElements(RowLists)
    \/ AfterScan
    \/ Handler
    \/ Return
    \/ RowComplete
    \/ RowEnd
    \/ Finish
    \/ CreateExcel
    \/ NewRun(Tables, 0..(MaxRows + 1))

Spec == Init /\ [][Next]_vars

----
\* Runs long enough for checkpoints: a catalogue of MaxRunRows rows, of which
\* any number is selected, run after run.  The driver was created (or failed
\* to be) by an earlier script run, and the engine finds nothing or fails.

MaxRunRows == 20

Catalogue == [i \in 1..MaxRunRows |-> InputRow(i)]
RunLists == {<<>>}

InitRuns ==
    /\ pc = "setup"
    /\ df = Catalogue
    /\ num_rows \in 0..(MaxRunRows + 1)
    /\ \E pol \in Policies : whitelist = pol[1] /\ blacklist = pol[2]
    /\ results_df = <<>> /\ stats_df = <<>>
    /\ idx = 0
    /\ search_query = NoString
    /\ success_count = 0 /\ failed_count = 0 /\ filtered_count = 0
    /\ checkpoint_data = None
    /\ last_processed_index = -1
    /\ summary = NoSummary
    /\ description = NoString /\ supplier = NoString /\ brand = NoString
    /\ max_results = 0 /\ retry_count = 0
    /\ search_string = NoString
    /\ attempt = 0
    /\ image_containers = <<>>
    /\ image_urls = <<>>
    /\ source_page_url = NoString
    /\ examined = 0
    /\ ret = NoReturn
    /\ driver \in {"ok", "none"}
    /\ FilterIdle /\ EffectIdle

NextRuns ==
    \/ Setup
    \/ RowBegin
    \/ SearchEntry
    \/ Attempt
    \/ SleepAfterGet
    \/ FindElements(RunLists)
    \/ AfterScan
    \/ Handler
    \/ Return
    \/ RowComplete
    \/ RowEnd
    \/ Finish
    \/ CreateExcel
    \/ NewRun({Catalogue}, 0..(MaxRunRows + 1))

SpecRuns == InitRuns /\ [][NextRuns]_vars

----
\* Properties of process_dataframe, checked under Spec.

InRun == pc \notin {"setup", "filter_call", "filter_done"}

StartsWith(s, prefix) == Len(s) >= Len(prefix) /\ SubSeq(s, 1, Len(prefix)) = prefix

\* C1: at every point of a run (before the first row, between rows, at
\* return) results_df and stats_df have exactly min(num_rows, len(df)) rows,
\* and the i-th row of each carries the identifier of the i-th input row.
C1_RowsAligned ==
    InRun =>
        LET k == IF num_rows < Len(df) THEN num_rows ELSE Len(df)
        IN /\ Len(results_df) = k
           /\ Len(stats_df) = k
           /\ \A i \in 1..k : /\ results_df[i].id = df[i].id
                              /\ stats_df[i].Product_ID = df[i].id

\* a run of fewer rows than the table has returned, its row having raised
C1_Witness ==
    /\ pc = "done"
    /\ Len(df) = 2 /\ num_rows = 1
    /\ Len(results_df) = 1
    /\ StartsWith(stats_df[1].Search_Status, ErrorPrefix)

\* the first n characters of a message, written without slicing
FirstChars(msg, n) == [i \in 1..(IF Len(msg) < n THEN Len(msg) ELSE n) |-> msg[i]]

C2_State ==
    /\ (pc = "metrics" /\ ret.kind = "raise") =>
            stats_df[idx + 1].Search_Status = ErrorPrefix \o FirstChars(ret.msg, ErrorKeep)
    /\ pc = "done" =>
            /\ idx = Len(results_df)
            /\ \A i \in 1..Len(stats_df) : stats_df[i].Search_Status # <<>>

C2_Step ==
    /\ (pc = "search_return" /\ ret.kind = "raise") =>
            /\ failed_count' = failed_count + 1
            /\ success_count' = success_count
            /\ filtered_count' = filtered_count
            /\ pc' = "metrics"
            /\ idx' = idx
    /\ pc = "metrics" => (idx' = idx + 1 /\ pc' = "row")
    /\ (pc = "row" /\ idx < Len(results_df)) => pc' = "search_entry"

\* C2: a row whose search raises is completed with the status "Error: " plus
\* the first 50 characters of the message, failed_count grows by exactly one,
\* the loop goes on to the next row, and the run ends only after the last
\* selected row, every row having a status.
C2_ErrorRowCompleted == [](C2_State) /\ [][C2_Step]_vars

\* a finished run whose first row raised, its status holding 50 characters
\* of the message, and whose second row was processed after it
C2_Witness ==
    /\ pc = "done"
    /\ Len(stats_df) = 2
    /\ stats_df[1].Search_Status = ErrorPrefix \o Msg(ErrorKeep)
    /\ stats_df[2].Search_Status = StatusSuccess
    /\ failed_count = 1

\* the slots, page URL and status a returned search must leave in row idx
C3_RowMatches(configured) ==
    LET r == results_df[idx + 1]
        st == stats_df[idx + 1].Search_Status
    IN /\ r.Image_URL_1 = (IF Len(ret.urls) >= 1 THEN ret.urls[1] ELSE <<>>)
       /\ r.Image_URL_2 = (IF Len(ret.urls) >= 2 THEN ret.urls[2] ELSE <<>>)
       /\ r.Product_Page_URL = ret.page
       /\ st = IF ret.urls # <<>> THEN StatusSuccess
               ELSE IF configured THEN StatusFiltered
               ELSE StatusFailed

\* C3 as stated: a list that is configured (enabled, whatever it holds) makes
\* a row without urls "Filtered - No allowed domains".
C3_AsStated ==
    (pc = "metrics" /\ ret.kind = "value") =>
        C3_RowMatches(whitelist.present \/ blacklist.present)

\* C3 (amended): for a row whose search returned, urls give "Success" with
\* url k in Image_URL_k and the source page in Product_Page_URL; no urls give
\* "Filtered - No allowed domains" when the whitelist or the blacklist has at
\* least one entry, and "Failed - No images found" when neither has.
C3_Classification ==
    (pc = "metrics" /\ ret.kind = "value") =>
        C3_RowMatches(whitelist.items # <<>> \/ blacklist.items # <<>>)

\* a row with two different urls, and a row without urls under a whitelist
C3_Witness ==
    /\ pc = "metrics" /\ ret.kind = "value"
    /\ idx = 1
    /\ Len(ret.urls) = 2 /\ ret.urls[1] # ret.urls[2]
    /\ results_df[2].Image_URL_2 = ret.urls[2]
    /\ stats_df[1].Search_Status = StatusFiltered
    /\ whitelist.items # <<>>

\* brand, supplier, description without surrounding blanks, the empty ones
\* left out, then "product", joined by single blanks
C8_Composed(row) ==
    LET keep(x) == IF Strip(x) = <<>> THEN <<>> ELSE <<Strip(x)>>
    IN Join(keep(row.brand) \o keep(row.supplier) \o keep(row.description) \o <<ProductToken>>)

\* C8: the Search_Query of a row completed without an exception is the
\* composed query (the non-empty values among brand, supplier, description,
\* then "product"), is never empty, and is the string the client sent.
C8_StatsQueryIsSentQuery ==
    (pc = "metrics" /\ ret.kind = "value") =>
        LET q == stats_df[idx + 1].Search_Query
        IN /\ q = C8_Composed(df[idx + 1])
           /\ q # <<>>
           /\ request_count > 0 => q = search_string

\* C9: a request is sent to the engine only if no request was sent before in
\* this run or a delay was taken since the latest one.
C9_DelayBetweenRequests ==
    pc = "attempt" => (~requested \/ slept_since_request)

\* the first request of a row that follows a row whose attempts all failed
\* at transport level (so the latest request failed, as a last attempt)
C9_Witness ==
    /\ pc = "attempt" /\ attempt = 0
    /\ idx >= 1
    /\ requested
    /\ stats_df[idx].Search_Status = StatusFailed
    /\ stats_df[idx].Images_Found = 0

----
\* Properties of is_domain_allowed, checked under SpecFilter.

HostOf(u) == Lower(urlparse(u).netloc)
Hit(list, host) == \E e \in {list.items[k] : k \in 1..Len(list.items)} : Contains(host, Lower(e))

C5_NoHostRejected ==
    (pc = "filter_done" /\ (url = <<>> \/ urlparse(url).raised \/ urlparse(url).netloc = <<>>)) =>
        allowed = FALSE

----
\* Properties of search_product_images, checked under SpecSearch.

\* the k-th smallest element of a set of positions
Kth(S, j) == CHOOSE k \in S : Cardinality({i \in S : i < k}) = j - 1

\* the urls and page a scan must yield when exactly the positions in acc of
\* the list cs are accepted
Yield(cs, acc, mr) ==
    [urls |-> [j \in 1..(IF Cardinality(acc) < mr THEN Cardinality(acc) ELSE mr) |->
                    ImageOf(cs[Kth(acc, j)])],
     page |-> IF acc = {} THEN <<>> ELSE cs[Kth(acc, 1)].purl]

Decodes(c) == c.m = "json"
PagePasses(c) == Decodes(c) /\ is_domain_allowed(c.purl, whitelist, blacklist)

\* C6: one call sends at most retry_count requests, sends none once an
\* attempt has accepted a url, sleeps the backoff after exactly the failed
\* attempts that are not the last, and returns the empty result, not an
\* exception, when every attempt failed at transport level.
C6_RetryBudget ==
    /\ request_count <= retry_count
    /\ pc = "attempt" => image_urls = <<>>
    /\ pc \in {"return", "search_return"} =>
            backoff_count = Cardinality({a \in failed_attempts : a + 1 < retry_count})
    /\ (pc = "search_return" /\ failed_attempts = 0..(retry_count - 1)) =>
            ret = Value(<<>>, <<>>)

\* both attempts of a call failed: two requests, one backoff, empty result
C6_Witness ==
    /\ pc = "search_return"
    /\ retry_count = 2
    /\ failed_attempts = {0, 1}
    /\ request_count = 2
    /\ backoff_count = 1
    /\ ret.kind = "value"

\* C7 as stated: the urls are the images of the first max_results results
\* whose hosting page passes the filter, and the page is that of the first.
C7_AsStated ==
    (pc = "search_return" /\ ret.kind = "value") =>
        LET cs == image_containers
            y == Yield(cs, {k \in 1..Len(cs) : PagePasses(cs[k])}, max_results)
        IN ret.urls = y.urls /\ ret.page = y.page

\* the positions one attempt accepts: within the first 3 * max_results
\* results, decodable, page passing the filter, image longer than 20
C7_Accepted(cs) ==
    {k \in 1..Len(cs) : /\ k <= 3 * max_results
                        /\ PagePasses(cs[k])
                        /\ Len(ImageOf(cs[k])) > MinImageLen}

\* C7 (amended): after every attempt whose transport call succeeded, and at
\* return for the latest such attempt, the urls are the images (murl, else
\* turl) of the first max_results results that are among the first
\* 3 * max_results of the list, decode, have a hosting page passing the
\* filter and an image URL longer than 20 characters; the page is the
\* hosting page of the first of them, empty when there is none.
C7_AcceptedInWindow ==
    /\ pc \in {"scanned", "return"} =>
            LET y == Yield(image_containers, C7_Accepted(image_containers), max_results)
            IN image_urls = y.urls /\ source_page_url = y.page
    /\ (pc = "search_return" /\ ret.kind = "value") =>
            LET y == Yield(image_containers, C7_Accepted(image_containers), max_results)
            IN ret.urls = y.urls /\ ret.page = y.page

\* a result beyond the window is not looked at although it would be
\* accepted, and the call returns nothing
C7_Witness ==
    /\ pc = "search_return" /\ ret.kind = "value"
    /\ max_results = 1
    /\ Len(image_containers) = 4
    /\ image_containers[1] = ShortOnG
    /\ image_containers[4] = OnG
    /\ is_domain_allowed(PageG, whitelist, blacklist)
    /\ ret.urls = <<>>

C10_AllUndecodable ==
    /\ image_containers # <<>>
    /\ \A k \in 1..Len(image_containers) : image_containers[k].m = "bad"

\* C10 as stated: an attempt whose transport call succeeded is not followed
\* by a further attempt because its candidates were undecodable.
C10_AsStated ==
    [][(pc = "scanned" /\ C10_AllUndecodable) => pc' # "attempt"]_vars

C10_State ==
    pc = "scanned" =>
        LET acc == C7_Accepted(image_containers)
            window == IF Len(image_containers) < 3 * max_results
                      THEN Len(image_containers) ELSE 3 * max_results
        IN examined = IF Cardinality(acc) < max_results THEN window
                      ELSE Kth(acc, max_results)

C10_Step ==
    pc = "scanned" =>
        /\ (pc' = "attempt") <=> (image_urls = <<>> /\ attempt + 1 < retry_count)
        /\ backoff_count' = backoff_count
        /\ failed_attempts' = failed_attempts

\* C10 (amended): an undecodable candidate is skipped and the candidates
\* after it are examined until max_results are accepted or the window ends;
\* a decode failure never runs the failure handler or its backoff; an attempt
\* whose transport call succeeded is followed by a further attempt exactly
\* when it accepted no url and an attempt is left, which is the case when
\* all its candidates were undecodable.
C10_DecodeFailureSkipped == [](C10_State) /\ [][C10_Step]_vars

\* an undecodable candidate is followed by one that is accepted
C10_Witness ==
    /\ pc = "scanned"
    /\ Len(image_containers) >= 2
    /\ image_containers[1] = BadJson
    /\ Len(image_urls) >= 1
    /\ examined >= 2

----
\* Properties of the checkpoint, checked under SpecRuns.

\* rows of the current run whose checkpoint step (lines 293-298) has run
RowsProcessed == idx

\* C11: at every point of a run, also after earlier runs, the stored
\* checkpoint is absent while fewer than 10 rows of the current run have been
\* processed; from then on its last-processed index is that of the latest
\* 10th row of this run, and its data is a copy of this run's result rows as
\* they were then (the same rows, and the rows processed by then unchanged).
C11_CheckpointOfCurrentRun ==
    pc \notin {"setup", "filter_call", "filter_done"} =>
        IF RowsProcessed < CheckpointInterval
        THEN checkpoint_data = None /\ last_processed_index = -1
        ELSE LET last == CheckpointInterval * (RowsProcessed \div CheckpointInterval)
             IN /\ last_processed_index = last - 1
                /\ checkpoint_data.present
                /\ Len(checkpoint_data.items) = Len(results_df)
                /\ SubSeq(checkpoint_data.items, 1, last) = SubSeq(results_df, 1, last)
                /\ \A i \in 1..Len(results_df) :
                        checkpoint_data.items[i].id = results_df[i].id

----
\* Properties of the run counters, checked under Spec.

RowsCompleted == IF pc = "metrics" THEN idx + 1 ELSE idx
Counted == success_count + failed_count + filtered_count

C12_State ==
    /\ pc \notin {"setup", "filter_call", "filter_done"} =>
            /\ success_count >= 0 /\ failed_count >= 0 /\ filtered_count >= 0
            /\ Counted = RowsCompleted
    /\ pc \in {"done", "reported"} => Counted = Min(num_rows, Len(df))

C12_Step ==
    /\ (pc = "setup" /\ pc' = "row") =>
            success_count' = 0 /\ failed_count' = 0 /\ filtered_count' = 0
    /\ (pc = "search_return" /\ pc' = "metrics") =>
            /\ \/ /\ success_count' = success_count + 1
                  /\ failed_count' = failed_count /\ filtered_count' = filtered_count
               \/ /\ failed_count' = failed_count + 1
                  /\ success_count' = success_count /\ filtered_count' = filtered_count
               \/ /\ filtered_count' = filtered_count + 1
                  /\ success_count' = success_count /\ failed_count' = failed_count
            /\ StartsWith(stats_df'[idx + 1].Search_Status, ErrorPrefix) =>
                    failed_count' = failed_count + 1
    /\ (pc \notin {"setup", "search_return"}) =>
            UNCHANGED <<success_count, failed_count, filtered_count>>

\* C12: the counters are zero when a run starts, in every run; completing a
\* row adds one to exactly one of success_count, failed_count and
\* filtered_count (to failed_count when the row's status is an Error), nothing
\* else changes them, so their sum is the number of completed rows after
\* every row and the number of selected rows at the end.
C12_CountersPartitionRows == [](C12_State) /\ [][C12_Step]_vars

\* the second row of a run is a Success after the first ended in an Error
C12_Witness ==
    /\ pc = "metrics" /\ idx = 1
    /\ StartsWith(stats_df[1].Search_Status, ErrorPrefix)
    /\ stats_df[2].Search_Status = StatusSuccess
    /\ success_count = 1 /\ failed_count = 1 /\ filtered_count = 0

----
\* Properties of the Summary sheet, checked under Spec.

\* C13: for the statistics rows of any run, the Summary counts every row in
\* exactly one category: Successful Searches + Failed Searches + Filtered
\* (Domain Rules) + Errors is Total Products Processed, whatever the messages
\* kept in the Error statuses.
C13_SummaryPartitionsRows ==
    pc = "reported" =>
        summary.total_success + summary.total_failed + summary.total_filtered
            + summary.total_errors = summary.total_processed

----
\* Properties of the Filtered status, checked under Spec.

\* C14: a row has the status "Filtered - No allowed domains" only if its
\* search examined a candidate that is_domain_allowed turned down; a row whose
\* search examined no candidate (no driver, or every attempt failed) is never
\* Filtered, whatever whitelist or blacklist is configured.
C14_FilteredOnlyAfterRejection ==
    (pc = "metrics" /\ stats_df[idx + 1].Search_Status = StatusFiltered) =>
        /\ filter_rejected
        /\ driver # "none"
        /\ failed_attempts # 0..(retry_count - 1)
====
